---- MODULE Spec2Model ----
(***************************************************************************)
(* Games dashboard (games_market_dash_Elizaveta_Zhaivoron.py): the         *)
(* module-level loader that cleans games.csv into the base table df, and   *)
(* the Dash callback that filters df by platform, genre and year range and *)
(* aggregates the filtered rows.                                           *)
(*                                                                         *)
(* A DataFrame is a sequence of rows; every row carries its index label    *)
(* in the field idx.  A boolean Series is a sequence of [idx, val].        *)
(* A cell of a numeric column is a record [k, v]:                          *)
(*   k = "nan"    missing value (v = 0)                                    *)
(*   k = "float"  a float, v = the value in units of 10^-Digits            *)
(*   k = "int"    an integer, v = the value                                *)
(*   k = "str"    a string that parses as a number, v as for "float"       *)
(*   k = "text"   a string that does not parse as a number, e.g. 'tbd'     *)
(* A cell of a string column is a string; read_csv reads the text "NaN"    *)
(* as a missing value.                                                     *)
(***************************************************************************)
EXTENDS Integers, Sequences, FiniteSets, TLC

VARIABLES file, df, min_year, max_year, pc,
          platforms, genres, years, local_df, out

vars == <<file, df, min_year, max_year, pc,
          platforms, genres, years, local_df, out>>

\* Largest number of rows of games.csv.
MaxRows == 3

\* The year window of the loader.
YearFrom == 2000
YearTo == 2022

\* round(x, 2): floats are kept in units of 10^-Digits.
Digits == 2
Scale == 10 ^ Digits

-----------------------------------------------------------------------------
\* Cells.

NaN == "NaN"
Nan == [k |-> "nan", v |-> 0]
FloatCell(x) == [k |-> "float", v |-> x]
IntCell(n) == [k |-> "int", v |-> n]
StrCell(x) == [k |-> "str", v |-> x]
TextCell == [k |-> "text", v |-> 0]

\* A float or a numeric string given as whole units.
F(n) == FloatCell(n * Scale)
S(n) == StrCell(n * Scale)

StringColumns == {"Name", "Platform", "Genre", "Rating"}
NumericColumns == {"Year_of_Release", "Critic_Score", "User_Score"}

RawRow(n, p, g, y, c, u, r) ==
    [Name |-> n, Platform |-> p, Genre |-> g, Year_of_Release |-> y,
     Critic_Score |-> c, User_Score |-> u, Rating |-> r]

\* The lines games.csv is drawn from: clean rows, and one row for each reason
\* the loader has to drop a row (a score that is no number, a missing score,
\* a missing rating, a year below and a year above the window).
Catalogue ==
    << RawRow("A", "PS4", "Action", F(2010), F(80), StrCell(750), "E"),
       RawRow("B", "PC",  "RPG",    F(2015), F(90), S(8),         "T"),
       RawRow("A", "PC",  "Action", F(2022), F(90), S(8),         "T"),
       RawRow("C", "PS4", "RPG",    F(2000), F(80), S(8),         "E"),
       RawRow("C", "PS4", "Action", F(2010), F(90), StrCell(750), "E"),
       RawRow("B", "PS4", "Action", F(2015), F(90), TextCell,     "E"),
       RawRow("C", "PC",  "RPG",    F(2010), Nan,   StrCell(750), "T"),
       RawRow("B", "PS4", "RPG",    F(2015), F(80), S(8),         NaN),
       RawRow("A", "PS4", "RPG",    F(1999), F(80), S(8),         "T"),
       RawRow("B", "PC",  "Action", F(2023), F(90), StrCell(750), "E") >>

RawRows == {Catalogue[i] : i \in 1..Len(Catalogue)}

Platforms == {r.Platform : r \in RawRows}
Genres == {r.Genre : r \in RawRows}

\* The positions of the year slider that the callback is tried with.
YearMarks == {2000, 2010, 2022}

-----------------------------------------------------------------------------
\* Series and DataFrame helpers.

Labels(t) == {t[p].idx : p \in 1..Len(t)}

WithIdx(r, i) ==
    [idx |-> i, Name |-> r.Name, Platform |-> r.Platform, Genre |-> r.Genre,
     Year_of_Release |-> r.Year_of_Release, Critic_Score |-> r.Critic_Score,
     User_Score |-> r.User_Score, Rating |-> r.Rating]

\* pd.read_csv: the rows in file order under a RangeIndex 0..n-1.
ReadCsv(f) == [p \in 1..Len(f) |-> WithIdx(f[p], p - 1)]

IsNull(c) == c.k = "nan"

HasNull(r) ==
    \/ \E col \in StringColumns : r[col] = NaN
    \/ \E col \in NumericColumns : IsNull(r[col])

\* DataFrame.dropna(): drop every row with a missing value in any column.
DropNa(t) == SelectSeq(t, LAMBDA r : ~HasNull(r))

\* astype(int) of one cell: a float is truncated.
AstypeInt(c) ==
    CASE c.k = "float" -> IntCell(c.v \div Scale)
      [] OTHER -> c

SetCol(r, col, c) == [r EXCEPT ![col] = c]

YearAsInt(t) ==
    [p \in 1..Len(t) |->
        SetCol(t[p], "Year_of_Release", AstypeInt(t[p].Year_of_Release))]

\* pd.to_numeric(errors='coerce') of one cell.
ToNumericCoerce(c) ==
    CASE c.k = "str" -> FloatCell(c.v)
      [] c.k = "text" -> Nan
      [] OTHER -> c

\* df[pd.to_numeric(df[column], errors='coerce').notnull()]
KeepCoercible(t, col) ==
    SelectSeq(t, LAMBDA r : ~IsNull(ToNumericCoerce(r[col])))

\* The window without its lower end.
InWindowMut(r) == r.Year_of_Release.v <= YearTo

InWindow(r) ==
    /\ r.Year_of_Release.v >= YearFrom
    /\ r.Year_of_Release.v <= YearTo

KeepWindow(t) == SelectSeq(t, InWindow)

\* A conversion that also puts the scores on a scale ten times larger.
ToNumericMut(c) ==
    CASE c.k = "str" -> FloatCell(c.v)
      [] c.k = "float" -> FloatCell(c.v * 10)
      [] OTHER -> c

\* pd.to_numeric of one cell of a column whose cells all coerce.
ToNumeric(c) ==
    CASE c.k = "str" -> FloatCell(c.v)
      [] OTHER -> c

ScoresAsNumeric(t) ==
    [p \in 1..Len(t) |->
        SetCol(SetCol(t[p], "User_Score", ToNumeric(t[p].User_Score)),
               "Critic_Score", ToNumeric(t[p].Critic_Score))]

\* The cleaning pipeline applied to a DataFrame.
Clean(t) ==
    ScoresAsNumeric(
        KeepWindow(
            KeepCoercible(
                KeepCoercible(YearAsInt(DropNa(t)), "Critic_Score"),
                "User_Score")))

Loader(f) == Clean(ReadCsv(f))

YearsOf(t) == {t[p].Year_of_Release.v : p \in 1..Len(t)}

\* Series.min() / Series.max(): nan for an empty Series.
SeriesMin(vs) == IF vs = {} THEN Nan ELSE IntCell(CHOOSE m \in vs : \A x \in vs : m <= x)
SeriesMax(vs) == IF vs = {} THEN Nan ELSE IntCell(CHOOSE m \in vs : \A x \in vs : m >= x)

-----------------------------------------------------------------------------
\* The callback.

RowSet(t) == {t[p] : p \in 1..Len(t)}

\* local_df[col].isin(values): a boolean Series over the labels of t.
Isin(t, col, values) ==
    [p \in 1..Len(t) |-> [idx |-> t[p].idx, val |-> t[p][col] \in values]]

\* Comparison of a column cell with a slider value; false when either is nan.
Ge(a, b) == ~IsNull(a) /\ ~IsNull(b) /\ a.v >= b.v
Le(a, b) == ~IsNull(a) /\ ~IsNull(b) /\ a.v <= b.v

\* The range without its lower end: > in place of >=.
YearMaskMut(d, ys) ==
    [p \in 1..Len(d) |->
        [idx |-> d[p].idx,
         val |-> /\ Ge(d[p].Year_of_Release, ys[1])
                 /\ d[p].Year_of_Release.v # ys[1].v
                 /\ Le(d[p].Year_of_Release, ys[2])]]

\* (d['Year_of_Release'] >= years[0]) & (d['Year_of_Release'] <= years[1])
YearMask(d, ys) ==
    [p \in 1..Len(d) |->
        [idx |-> d[p].idx,
         val |-> Ge(d[p].Year_of_Release, ys[1]) /\ Le(d[p].Year_of_Release, ys[2])]]

MaskLabels(mask) == {mask[p].idx : p \in 1..Len(mask)}
MaskAt(mask, i) == (CHOOSE p \in 1..Len(mask) : mask[p].idx = i)

\* A .loc that wants the index of the mask to be the index of t.
UnalignableMut(t, mask) == Labels(t) # MaskLabels(mask)

\* .loc with a boolean Series raises IndexingError when the Series, reindexed
\* to the labels of t, has a hole.
Unalignable(t, mask) == ~(Labels(t) \subseteq MaskLabels(mask))

\* The mask taken by position, as for a bare boolean array.
LocMut(t, mask) ==
    LET Keep[k \in 0..Len(t)] ==
            IF k = 0 THEN <<>>
            ELSE IF k <= Len(mask) /\ mask[k].val
                 THEN Append(Keep[k - 1], t[k])
                 ELSE Keep[k - 1]
    IN  Keep[Len(t)]

\* t.loc[mask]: the mask is aligned with t on the index labels, and the rows
\* whose label carries True are kept.
Loc(t, mask) ==
    SelectSeq(t, LAMBDA r : r.idx \in MaskLabels(mask)
                            /\ mask[MaskAt(mask, r.idx)].val)

\* The platform filter without the test for an empty selection.
ByPlatformMut(t, ps) == Loc(t, Isin(t, "Platform", ps))

ByPlatform(t, ps) == IF ps # {} THEN Loc(t, Isin(t, "Platform", ps)) ELSE t
ByGenre(t, gs) == IF gs # {} THEN Loc(t, Isin(t, "Genre", gs)) ELSE t
ByYears(t, d, ys) == IF Len(ys) # 0 THEN Loc(t, YearMask(d, ys)) ELSE t

\* local_df after the three filters; the year mask is computed on d itself.
Filtered(d, ps, gs, ys) == ByYears(ByGenre(ByPlatform(d, ps), gs), d, ys)

FilterRaises(d, ps, gs, ys) ==
    Len(ys) # 0 /\ Unalignable(ByGenre(ByPlatform(d, ps), gs), YearMask(d, ys))

RECURSIVE SumCol(_, _)
SumCol(t, col) ==
    IF t = <<>> THEN 0 ELSE Head(t)[col].v + SumCol(Tail(t), col)

\* Truncation in place of rounding.
RoundHalfEvenMut(s, n) == s \div n

\* numpy rounding of s/n to an integer: half to even.
RoundHalfEven(s, n) ==
    LET q == s \div n
        r == s % n
    IN  IF 2 * r < n THEN q
        ELSE IF 2 * r > n THEN q + 1
        ELSE IF q % 2 = 0 THEN q ELSE q + 1

\* round(t[col].mean(), 2): the mean of an empty Series is nan, and so is
\* its rounding.
RoundedMean(t, col) ==
    IF Len(t) = 0 THEN Nan
    ELSE FloatCell(RoundHalfEven(SumCol(t, col), Len(t)))

\* len(t["Name"].unique().tolist())
CountNames(t) == Cardinality({t[p].Name : p \in 1..Len(t)})

GroupKeys(t) == {<<t[p].Platform, t[p].Year_of_Release.v>> : p \in 1..Len(t)}

\* The groups counted by platform alone.
FirstDfMut(t) ==
    [key \in GroupKeys(t) |->
        Cardinality({p \in 1..Len(t) : t[p].Platform = key[1]})]

\* groupby(['Platform','Year_of_Release']).count(): the Name column of each
\* group counts the rows of the group whose Name is not missing.
FirstDf(t) ==
    [key \in GroupKeys(t) |->
        Cardinality({p \in 1..Len(t) :
            /\ <<t[p].Platform, t[p].Year_of_Release.v>> = key
            /\ t[p].Name # NaN})]

\* The rows px.scatter draws.
SecondDf(t) ==
    [p \in 1..Len(t) |->
        [User_Score |-> t[p].User_Score, Critic_Score |-> t[p].Critic_Score,
         Genre |-> t[p].Genre]]

Freq(t, g, r) == Cardinality({p \in 1..Len(t) : t[p].Genre = g /\ t[p].Rating = r})

\* pd.Series.mode of the Rating values of genre g: every value of the highest
\* frequency.  agg keeps a single mode as a scalar and several as an array;
\* the cell is modelled by the set of the values it holds.
Mode(t, g) ==
    {r \in {t[p].Rating : p \in 1..Len(t)} :
        /\ Freq(t, g, r) > 0
        /\ \A r2 \in {t[p].Rating : p \in 1..Len(t)} : Freq(t, g, r2) <= Freq(t, g, r)}

\* groupby(['Genre'])['Rating'].agg(pd.Series.mode)
ThirdDf(t) == [g \in {t[p].Genre : p \in 1..Len(t)} |-> Mode(t, g)]

Aggregate(t) ==
    [count |-> CountNames(t),
     avg_players |-> RoundedMean(t, "User_Score"),
     avg_critics |-> RoundedMean(t, "Critic_Score"),
     first_df |-> FirstDf(t),
     second_df |-> SecondDf(t),
     third_df |-> ThirdDf(t)]

\* A callback that filters the module-level df in place.
DfAfterCallbackMut(d, ps, gs, ys) == Filtered(d, ps, gs, ys)

\* The module-level df after one run of the callback: the callback works on
\* df.copy() and rebinds only its local name.
DfAfterCallback(d, ps, gs, ys) == d

NoOut == Aggregate(<<>>)

-----------------------------------------------------------------------------
\* The program.

\* The lines of the catalogue at the positions I, in catalogue order.
Lines(I) ==
    [k \in 1..Cardinality(I) |->
        Catalogue[CHOOSE i \in I : Cardinality({j \in I : j < i}) = k - 1]]

Files ==
    {Lines(I) : I \in {J \in SUBSET (1..Len(Catalogue)) : Cardinality(J) <= MaxRows}}

YearRanges ==
    {<<>>, <<min_year, max_year>>}
        \cup {<<IntCell(a), IntCell(b)>> : a \in YearMarks, b \in YearMarks}

Init ==
    /\ file \in Files
    /\ df = <<>>
    /\ min_year = Nan
    /\ max_year = Nan
    /\ pc = "import"
    /\ platforms = {}
    /\ genres = {}
    /\ years = <<>>
    /\ local_df = <<>>
    /\ out = NoOut

\* Lines 9-157: the module body, run once when the module is imported.  The
\* layout starts the dropdowns empty and the slider at [min_year, max_year].
Load ==
    /\ pc = "import"
    /\ df' = Loader(file)
    /\ min_year' = SeriesMin(YearsOf(df'))
    /\ max_year' = SeriesMax(YearsOf(df'))
    /\ platforms' = {}
    /\ genres' = {}
    /\ years' = <<min_year', max_year'>>
    /\ pc' = "idle"
    /\ UNCHANGED <<file, local_df, out>>

\* Lines 170-229: one run of the callback on the values of the three inputs.
Callback(ps, gs, ys) ==
    /\ platforms' = ps
    /\ genres' = gs
    /\ years' = ys
    /\ IF FilterRaises(df, ps, gs, ys)
       THEN /\ pc' = "failed"
            /\ local_df' = <<>>
            /\ out' = NoOut
       ELSE /\ pc' = "done"
            /\ local_df' = Filtered(df, ps, gs, ys)
            /\ out' = Aggregate(local_df')
    /\ df' = DfAfterCallback(df, ps, gs, ys)
    /\ UNCHANGED <<file, min_year, max_year>>

\* Dash runs the callback once when the page is first rendered ...
Render ==
    /\ pc = "idle"
    /\ Callback(platforms, genres, years)

\* ... and again whenever one of its three inputs changes.
SelectPlatforms ==
    /\ pc \in {"done", "failed"}
    /\ \E ps \in SUBSET Platforms : Callback(ps, genres, years)

SelectGenres ==
    /\ pc \in {"done", "failed"}
    /\ \E gs \in SUBSET Genres : Callback(platforms, gs, years)

MoveSlider ==
    /\ pc \in {"done", "failed"}
    /\ \E ys \in YearRanges : Callback(platforms, genres, ys)

Next ==
    \/ Load
    \/ Render
    \/ SelectPlatforms
    \/ SelectGenres
    \/ MoveSlider

Spec == Init /\ [][Next]_vars

TypeOK == pc \in {"import", "idle", "done", "failed"}

-----------------------------------------------------------------------------
\* Properties.

Loaded == pc # "import"
Called == pc \in {"done", "failed"}

\* The year range is a pair of numbers [from, to].
IsRange(ys) == Len(ys) = 2 /\ ~IsNull(ys[1]) /\ ~IsNull(ys[2])

\* The line of games.csv that the row r of a DataFrame was read from.
LineOf(r) == file[r.idx + 1]

\* Row r is selected by (ps, gs, [from, to]).
Selected(r, ps, gs, ys) ==
    /\ ps = {} \/ r.Platform \in ps
    /\ gs = {} \/ r.Genre \in gs
    /\ ys[1].v <= r.Year_of_Release.v
    /\ r.Year_of_Release.v <= ys[2].v

RowsOfGenre(t, g) == {r \in RowSet(t) : r.Genre = g}
RowsOfPair(t, pl, y) ==
    {r \in RowSet(t) : r.Platform = pl /\ r.Year_of_Release.v = y}

RECURSIVE SumOver(_, _)
SumOver(f, ks) ==
    IF ks = {} THEN 0
    ELSE LET k == CHOOSE x \in ks : TRUE IN f[k] + SumOver(f, ks \ {k})

Abs(x) == IF x < 0 THEN -x ELSE x

\* C1: after loading, every row of the base table has an integer year in
\* [2000, 2022] and float scores, and comes from a line of the file with no
\* missing value, no score that is not a number and no year out of the window.
C1_BaseTableClean ==
    Loaded =>
        \A r \in RowSet(df) :
            /\ r.Year_of_Release.k = "int"
            /\ 2000 <= r.Year_of_Release.v /\ r.Year_of_Release.v <= 2022
            /\ r.Critic_Score.k = "float"
            /\ r.User_Score.k = "float"
            /\ ~HasNull(LineOf(r))
            /\ LineOf(r).Critic_Score.k # "text"
            /\ LineOf(r).User_Score.k # "text"
            /\ 2000 * Scale <= LineOf(r).Year_of_Release.v
            /\ LineOf(r).Year_of_Release.v < 2023 * Scale

\* A row of each kind that has to go was in the file, and a row survived.
C1_Witness ==
    /\ Loaded
    /\ Len(df) = 1
    /\ Len(file) = 3
    /\ \E p \in 1..Len(file) : file[p].User_Score.k = "text"
    /\ \E p \in 1..Len(file) : file[p].Year_of_Release.v > 2022 * Scale

\* C2: the filtered subset is exactly the rows of the base table that the
\* selection (platforms, genres, [from, to]) selects, in the order of the
\* base table, and the callback does not fail.
C2_FilteredExact ==
    (Called /\ IsRange(years)) =>
        /\ pc = "done"
        /\ local_df = SelectSeq(df, LAMBDA r : Selected(r, platforms, genres, years))

\* The platform filter rejected a row whose year is in the range, and kept a
\* row whose year is not.
C2_Witness ==
    /\ pc = "done"
    /\ IsRange(years)
    /\ platforms # {}
    /\ \E r \in RowSet(df) :
          r.Platform \notin platforms /\ Selected(r, {}, genres, years)
    /\ \E r \in RowSet(df) :
          r.Platform \in platforms /\ ~Selected(r, {}, {}, years)
    /\ local_df # <<>>

\* C3: the base table stays the table the loader produced, and the result of
\* a run of the callback is the result for its own selection on that table.
C3_BaseTableFrozen ==
    Loaded =>
        /\ df = Loader(file)
        /\ pc = "done" =>
              /\ local_df = Filtered(Loader(file), platforms, genres, years)
              /\ out = Aggregate(Filtered(Loader(file), platforms, genres, years))

\* A later run of the callback (the first one selects everything) that
\* selected a part of a base table of several rows.
C3_Witness ==
    /\ pc = "done"
    /\ Len(df) >= 2
    /\ local_df # <<>>
    /\ Len(local_df) < Len(df)
    /\ platforms # {}
    /\ genres # {}

\* C4: with no platform, no genre and the slider at [min_year, max_year] the
\* filtered subset is the whole base table and the result is its aggregation.
C4_EmptySelection ==
    (Called /\ platforms = {} /\ genres = {} /\ years = <<min_year, max_year>>) =>
        /\ pc = "done"
        /\ local_df = df
        /\ out.count = Cardinality({r.Name : r \in RowSet(df)})
        /\ out = Aggregate(df)

C4_Witness ==
    /\ pc = "done"
    /\ platforms = {} /\ genres = {} /\ years = <<min_year, max_year>>
    /\ Len(df) >= 2
    /\ min_year # max_year
    /\ out.count >= 2

\* C5: with genres and years fixed, adding a platform to a non-empty platform
\* selection never decreases the row count, and no platform selection gives
\* more rows than the empty one.
C5_PlatformMonotonic ==
    pc = "done" =>
        /\ platforms # {} =>
              \A p \in Platforms :
                  Len(Filtered(df, platforms \cup {p}, genres, years)) >= Len(local_df)
        /\ \A ps \in SUBSET Platforms :
              Len(Filtered(df, ps, genres, years)) <= Len(Filtered(df, {}, genres, years))
        /\ Len(local_df) <= Len(Filtered(df, {}, genres, years))

\* A single platform is selected, and adding the other one adds rows.
C5_Witness ==
    /\ pc = "done"
    /\ Cardinality(platforms) = 1
    /\ local_df # <<>>
    /\ \E p \in Platforms :
          Len(Filtered(df, platforms \cup {p}, genres, years)) > Len(local_df)

\* No row of the base table is selected.
NoMatch ==
    \A r \in RowSet(df) :
        ~(/\ platforms = {} \/ r.Platform \in platforms
          /\ genres = {} \/ r.Genre \in genres
          /\ Len(years) = 2 =>
                /\ Ge(r.Year_of_Release, years[1])
                /\ Le(r.Year_of_Release, years[2]))

\* C6: when the selection matches no row the callback returns: count 0,
\* nan for both means, and three empty tables.
C6_EmptyResult ==
    (Called /\ NoMatch) =>
        /\ pc = "done"
        /\ out.count = 0
        /\ out.avg_players = Nan
        /\ out.avg_critics = Nan
        /\ DOMAIN out.first_df = {}
        /\ out.second_df = <<>>
        /\ DOMAIN out.third_df = {}

\* The slider range is reversed on a base table with rows, after the platform
\* filter has taken rows away.
C6_Witness ==
    /\ pc = "done"
    /\ NoMatch
    /\ Len(df) >= 2
    /\ platforms # {} /\ \E r \in RowSet(df) : r.Platform \notin platforms
    /\ IsRange(years) /\ years[1].v > years[2].v

IsExample ==
    /\ file = <<Catalogue[1], Catalogue[2]>>
    /\ platforms = {"PS4"} /\ genres = {}
    /\ years = <<IntCell(2000), IntCell(2022)>>

ExampleOut ==
    /\ out.count = 1
    /\ out.avg_players = FloatCell(750)
    /\ out.avg_critics = FloatCell(8000)

\* C7 as stated: the count is the number of distinct names, and the returned
\* means are the means of the two scores over the rows of the filtered subset.
C7_MeansExact ==
    pc = "done" =>
        /\ out.count = Cardinality({r.Name : r \in RowSet(local_df)})
        /\ local_df # <<>> =>
              /\ out.avg_players.v * Len(local_df) = SumCol(local_df, "User_Score")
              /\ out.avg_critics.v * Len(local_df) = SumCol(local_df, "Critic_Score")
        /\ IsExample => ExampleOut

\* C7 amended: the count is the number of distinct names, and the returned
\* means are the means of the two scores over the rows of the filtered
\* subset rounded to 2 decimal places (within half of 0.01 of the mean).
C7_MeansRounded ==
    pc = "done" =>
        /\ out.count = Cardinality({r.Name : r \in RowSet(local_df)})
        /\ local_df # <<>> =>
              /\ out.avg_players.k = "float"
              /\ out.avg_critics.k = "float"
              /\ 2 * Abs(out.avg_players.v * Len(local_df)
                            - SumCol(local_df, "User_Score")) <= Len(local_df)
              /\ 2 * Abs(out.avg_critics.v * Len(local_df)
                            - SumCol(local_df, "Critic_Score")) <= Len(local_df)
        /\ IsExample => ExampleOut

\* A game is in two rows of the filtered subset, and the mean of the user
\* scores has more than 2 decimal places.
C7_Witness ==
    /\ pc = "done"
    /\ out.count < Len(local_df)
    /\ local_df # <<>>
    /\ SumCol(local_df, "User_Score") % Len(local_df) # 0

C7_ExampleWitness == pc = "done" /\ IsExample

\* C8: the base table is the cleaning of the file, and cleaning the base
\* table again gives the base table.
C8_LoadIdempotent ==
    Loaded =>
        /\ df = Clean(ReadCsv(file))
        /\ Clean(df) = df

\* The loader dropped rows and converted the scores of the rows it kept.
C8_Witness ==
    /\ Loaded
    /\ Len(df) >= 2
    /\ Len(df) < Len(file)
    /\ \E r \in RowSet(df) : LineOf(r).User_Score # r.User_Score

\* C9 as stated: the per-genre table has one entry for each genre of the
\* filtered subset and no other, and the entry holds a single rating, one of
\* the most frequent ratings of the genre, also when ratings tie.
C9_SingleMode ==
    pc = "done" =>
        /\ DOMAIN out.third_df = {r.Genre : r \in RowSet(local_df)}
        /\ \A g \in DOMAIN out.third_df :
              /\ Cardinality(out.third_df[g]) = 1
              /\ \A m \in out.third_df[g] :
                    \A r \in RowsOfGenre(local_df, g) :
                        Cardinality({x \in RowsOfGenre(local_df, g) : x.Rating = r.Rating})
                          <= Cardinality({x \in RowsOfGenre(local_df, g) : x.Rating = m})

\* C10: the Year x Platform table has one group for each (platform, year)
\* pair of the filtered subset, the count of a group is the number of rows
\* with the pair, and the counts add up to the number of rows, which is at
\* least the count of distinct names.
C10_GroupCounts ==
    pc = "done" =>
        /\ DOMAIN out.first_df =
              {<<r.Platform, r.Year_of_Release.v>> : r \in RowSet(local_df)}
        /\ \A key \in DOMAIN out.first_df :
              /\ out.first_df[key] = Cardinality(RowsOfPair(local_df, key[1], key[2]))
              /\ out.first_df[key] >= 1
        /\ SumOver(out.first_df, DOMAIN out.first_df) = Len(local_df)
        /\ Len(local_df) >= out.count

\* Two rows share a group, a third row has a group of its own, and a game is
\* counted once for two rows.
C10_Witness ==
    /\ pc = "done"
    /\ Len(local_df) = 3
    /\ Cardinality(DOMAIN out.first_df) = 2
    /\ out.count = 2

====
